---- MODULE Spec2Model ----
(***************************************************************************)
(* A model of bike-share.py: the Dataset Loader (load_data), the           *)
(* Statistics Reporter (show_stats), the Chart Renderer (the two pie       *)
(* functions) and the Streamlit script that wires them to the widgets.     *)
(*                                                                         *)
(* A CSV file is a record [exists, cols, rows].  A DataFrame is a record   *)
(* [cols, rows]; every row keeps the index label it had in the file.       *)
(* A missing cell (NaN) of a text column is the string NaN, of a numeric   *)
(* column or of a station name the empty sequence.  A station name is a    *)
(* sequence of tokens, so that string concatenation is sequence            *)
(* concatenation.  A timestamp is a calendar record of the year 2017,      *)
(* the year of the bikeshare data.                                         *)
(***************************************************************************)
EXTENDS Integers, Sequences, FiniteSets, TLC

VARIABLES files, city, month, day, checkbox, action, run, call, snap, view, report

vars == <<files, city, month, day, checkbox, action, run, call, snap, view, report>>

(***************************************************************************)
(* Constants of the script                                                 *)
(***************************************************************************)
CITY_DATA ==
    ("Chicago" :> "chicago.csv") @@ ("New York City" :> "new_york_city.csv")
        @@ ("Washington" :> "washington.csv")

Cities == <<"Chicago", "New York City", "Washington">>

MONTHS == <<"All", "January", "February", "March", "April", "May", "June">>

DAYS == <<"All", "Monday", "Tuesday", "Wednesday", "Thursday", "Friday",
          "Saturday", "Sunday">>

Range(s) == {s[i] : i \in DOMAIN s}

FileNames == {CITY_DATA[c] : c \in DOMAIN CITY_DATA}

(***************************************************************************)
(* Missing values and the columns of the files                             *)
(***************************************************************************)
NaN == "NaN"

RequiredCols == {"Start Time", "Start Station", "End Station", "Trip Duration",
                 "User Type"}

OptionalCols == {"Gender", "Birth Year"}

DerivedCols == {"month", "day_of_week", "hour"}

(***************************************************************************)
(* pandas' .dt accessors on a parsed Start Time                            *)
(***************************************************************************)
MonthNames == <<"January", "February", "March", "April", "May", "June", "July",
                "August", "September", "October", "November", "December">>

DayNames == <<"Monday", "Tuesday", "Wednesday", "Thursday", "Friday",
              "Saturday", "Sunday">>

DaysInMonth == <<31, 28, 31, 30, 31, 30, 31, 31, 30, 31, 30, 31>>

RECURSIVE DaysBefore(_)
DaysBefore(m) == IF m = 1 THEN 0 ELSE DaysBefore(m - 1) + DaysInMonth[m - 1]

\* 1 January 2017 was a Sunday; pandas counts Monday as weekday 0.
Weekday(ts) == (DaysBefore(ts.mon) + ts.dom - 1 + 6) % 7

month_name(ts) == MonthNames[ts.mon]

day_name(ts) == DayNames[Weekday(ts) + 1]

(***************************************************************************)
(* load_data                                                               *)
(***************************************************************************)
EmptyDataFrame == [cols |-> {}, rows |-> <<>>]

\* pd.read_csv followed by the four column assignments of load_data.
Derive(f) ==
    [cols |-> f.cols \cup DerivedCols,
     rows |-> [i \in DOMAIN f.rows |->
                 [idx |-> i - 1,
                  ts |-> f.rows[i].ts,
                  start |-> f.rows[i].start,
                  end |-> f.rows[i].end,
                  dur |-> f.rows[i].dur,
                  utype |-> f.rows[i].utype,
                  gender |-> f.rows[i].gender,
                  birth |-> f.rows[i].birth,
                  month |-> month_name(f.rows[i].ts),
                  day_of_week |-> day_name(f.rows[i].ts),
                  hour |-> f.rows[i].ts.hour]]]

\* df[mask]: the rows for which the mask holds, in order, labels kept.
FilterMonth(df, m) ==
    IF m # "All"
    THEN LET Keep(r) == r.month = m
         IN  [cols |-> df.cols, rows |-> SelectSeq(df.rows, Keep)]
    ELSE df

FilterDay(df, d) ==
    IF d # "All"
    THEN LET Keep(r) == r.day_of_week = d
         IN  [cols |-> df.cols, rows |-> SelectSeq(df.rows, Keep)]
    ELSE df

NotFound(c) == [kind |-> "error", text |-> "Data file not found", about |-> c]

\* A cache keyed by the city alone: what load_data would be if it kept the
\* DataFrame of the previous call instead of reading the file again.
load_data_cached(c, m, d) ==
    IF /\ call # <<>>
       /\ call[1].args.city = c
       /\ call[1].df.cols # {}
    THEN [df |-> FilterDay(FilterMonth(call[1].df, m), d), msgs |-> <<>>]
    ELSE IF /\ call = <<>>
            /\ snap # <<>>
            /\ snap[1].args.city = c
            /\ snap[1].df.cols # {}
    THEN [df |-> FilterDay(FilterMonth(snap[1].df, m), d), msgs |-> <<>>]
    ELSE IF ~files[CITY_DATA[c]].exists
    THEN [df |-> EmptyDataFrame, msgs |-> <<NotFound(c)>>]
    ELSE [df |-> FilterDay(FilterMonth(Derive(files[CITY_DATA[c]]), m), d),
          msgs |-> <<>>]

\* The day filter applied to the unfiltered frame, losing the month filter.
load_data_lost_filter(c, m, d) ==
    IF ~files[CITY_DATA[c]].exists
    THEN [df |-> EmptyDataFrame, msgs |-> <<NotFound(c)>>]
    ELSE LET df0 == Derive(files[CITY_DATA[c]])
         IN  [df |-> IF d # "All" THEN FilterDay(df0, d) ELSE FilterMonth(df0, m),
              msgs |-> <<>>]

\* The missing file handled without telling the user.
load_data_silent(c, m, d) ==
    IF ~files[CITY_DATA[c]].exists
    THEN [df |-> EmptyDataFrame, msgs |-> <<>>]
    ELSE [df |-> FilterDay(FilterMonth(Derive(files[CITY_DATA[c]]), m), d),
          msgs |-> <<>>]

\* The DataFrame returned and the messages written with st.error.
load_data(c, m, d) ==
    IF ~files[CITY_DATA[c]].exists
    THEN [df |-> EmptyDataFrame, msgs |-> <<NotFound(c)>>]
    ELSE [df |-> FilterDay(FilterMonth(Derive(files[CITY_DATA[c]]), m), d),
          msgs |-> <<>>]

\* DataFrame.empty: some axis has length 0.
Empty(df) == df.cols = {} \/ df.rows = <<>>

(***************************************************************************)
(* Series helpers                                                          *)
(***************************************************************************)
\* Series.dropna on a text column and on a numeric or station column.
DropNaN(col) == LET Present(v) == v # NaN IN SelectSeq(col, Present)

DropMissing(col) == LET Present(v) == v # <<>> IN SelectSeq(col, Present)

Count(col, v) == Cardinality({i \in DOMAIN col : col[i] = v})

\* Python's order on the month and weekday names.
NameOrder == <<"April", "August", "December", "February", "Friday", "January",
               "July", "June", "March", "May", "Monday", "November", "October",
               "Saturday", "September", "Sunday", "Thursday", "Tuesday",
               "Wednesday">>

NameRank(s) == CHOOSE i \in DOMAIN NameOrder : NameOrder[i] = s

\* Python's order on station names: a blank sorts before every letter.
TokenOrder == <<" to ", "A", "B", "C">>

TokenRank(t) == CHOOSE i \in DOMAIN TokenOrder : TokenOrder[i] = t

RECURSIVE StationLess(_, _)
StationLess(a, b) ==
    IF a = <<>> THEN b # <<>>
    ELSE IF b = <<>> THEN FALSE
    ELSE IF Head(a) # Head(b) THEN TokenRank(Head(a)) < TokenRank(Head(b))
    ELSE StationLess(Tail(a), Tail(b))

\* a < b in the order of the values of a column of the given kind.
Less(kind, a, b) ==
    CASE kind = "name" -> NameRank(a) < NameRank(b)
      [] kind = "station" -> StationLess(a, b)
      [] kind = "number" -> a < b

\* Series.mode(): the values of greatest count among those present.
Modes(col) ==
    {v \in Range(col) : \A w \in Range(col) : Count(col, w) <= Count(col, v)}

Least(kind, S) == CHOOSE v \in S : \A w \in S \ {v} : Less(kind, v, w)

Greatest(kind, S) == CHOOSE v \in S : \A w \in S \ {v} : Less(kind, w, v)

\* The modes left in order of first appearance instead of sorted.
FirstOfUnsorted(kind, col, modes) ==
    IF modes = {} THEN <<>>
    ELSE <<col[CHOOSE i \in DOMAIN col :
                 /\ col[i] \in modes
                 /\ \A j \in 1..(i - 1) : col[j] \notin modes]>>

\* [0] of the modes of col: mode() returns them sorted ascending; on an
\* empty result [0] raises, written <<>>.
FirstOf(kind, col, modes) ==
    IF modes = {} THEN <<>> ELSE <<Least(kind, modes)>>

\* mode()[0] on a column without its missing values.
ModeFirst(kind, col) == FirstOf(kind, col, Modes(col))

RECURSIVE SumSeq(_)
SumSeq(s) == IF s = <<>> THEN 0 ELSE Head(s) + SumSeq(Tail(s))

\* n / d rounded to an integer as the float formatting rounds: to nearest,
\* an exact tie to even.
RoundDiv(n, d) ==
    IF 2 * (n % d) < d THEN n \div d
    ELSE IF 2 * (n % d) > d THEN (n \div d) + 1
    ELSE (n \div d) + ((n \div d) % 2)

(***************************************************************************)
(* The pie charts                                                          *)
(***************************************************************************)
FirstSeen(col, v) ==
    CHOOSE i \in DOMAIN col : col[i] = v /\ \A j \in 1..(i - 1) : col[j] # v

\* v comes before w in the result of value_counts: by descending count,
\* equal counts in order of first appearance.
Before(col, v, w) ==
    \/ Count(col, v) > Count(col, w)
    \/ Count(col, v) = Count(col, w) /\ FirstSeen(col, v) < FirstSeen(col, w)

Top(col, S) == CHOOSE v \in S : \A w \in S \ {v} : Before(col, v, w)

RECURSIVE ByCount(_, _)
ByCount(col, S) ==
    IF S = {} THEN <<>>
    ELSE <<[value |-> Top(col, S), count |-> Count(col, Top(col, S))]>>
             \o ByCount(col, S \ {Top(col, S)})

Counts(col) == ByCount(col, Range(col))

\* Series.value_counts(dropna=False): NaN is counted as a category.
value_counts_keepna(col) == Counts(col)

\* Series.value_counts(): NaN is dropped.
value_counts(col) == Counts(DropNaN(col))

\* count / total formatted with :.2%, in hundredths of a percent.
Percent(count, total) == RoundDiv(10000 * count, total)

Sizes(counts) == [i \in DOMAIN counts |-> counts[i].count]

Labels(counts, total) ==
    [i \in DOMAIN counts |->
       [name |-> counts[i].value,
        count |-> counts[i].count,
        pct |-> Percent(counts[i].count, total)]]

\* The figure: one slice per category, sized by its count, and its label.
Pie(title, counts) ==
    [title |-> title,
     sizes |-> Sizes(counts),
     labels |-> Labels(counts, SumSeq(Sizes(counts)))]

Column(df, field) == [i \in DOMAIN df.rows |-> df.rows[i][field]]

plot_user_type_pie(df) ==
    Pie("User Type Distribution", value_counts(Column(df, "utype")))

\* <<>> is None.
plot_gender_pie(df) ==
    IF "Gender" \in df.cols
    THEN <<Pie("Gender Distribution", value_counts(Column(df, "gender")))>>
    ELSE <<>>

(***************************************************************************)
(* show_stats                                                              *)
(***************************************************************************)
Unwrap(col) == [i \in DOMAIN col |-> col[i][1]]

\* The numbers of a numeric column, missing cells dropped.
Numbers(col) == Unwrap(DropMissing(col))

\* df['Start Station'] + " to " + df['End Station']: NaN where either is.
TripKey(r) ==
    IF r.start = <<>> \/ r.end = <<>> THEN <<>> ELSE r.start \o <<" to ">> \o r.end

Trips(df) == [i \in DOMAIN df.rows |-> TripKey(df.rows[i])]

\* One st.write: the line written, or the exception raised in computing it.
Written(key, v) == [key |-> key, ok |-> TRUE, val |-> v]

Raises(key) == [key |-> key, ok |-> FALSE, val |-> <<>>]

LineOf(key, m) == IF m = <<>> THEN Raises(key) ELSE Written(key, m[1])

ModeLine(key, kind, col) == LineOf(key, ModeFirst(kind, col))

TimeLines(df) ==
    <<ModeLine("Most Common Month", "name", Column(df, "month")),
      ModeLine("Most Common Day", "name", Column(df, "day_of_week")),
      ModeLine("Most Common Start Hour", "number", Column(df, "hour"))>>

StationLines(df) ==
    <<ModeLine("Most Common Start Station", "station",
               DropMissing(Column(df, "start"))),
      ModeLine("Most Common End Station", "station",
               DropMissing(Column(df, "end"))),
      ModeLine("Most Frequent Trip", "station", DropMissing(Trips(df)))>>

\* sum() skips NaN; mean() of no numbers is NaN, which formats as "nan".
\* The mean is in hundredths, as :,.2f prints it.
DurationOf(durs) ==
    <<Written("Total Travel Time", SumSeq(durs)),
      Written("Average Travel Time",
              IF durs = <<>> THEN <<>>
              ELSE <<RoundDiv(100 * SumSeq(durs), Len(durs))>>)>>

DurationLines(df) == DurationOf(Numbers(Column(df, "dur")))

\* int() of a NaN minimum or maximum raises ValueError.
BirthYearOf(years) ==
    <<IF years = <<>> THEN Raises("Earliest")
      ELSE Written("Earliest", Least("number", Range(years))),
      IF years = <<>> THEN Raises("Most Recent")
      ELSE Written("Most Recent", Greatest("number", Range(years))),
      ModeLine("Most Common", "number", years)>>

BirthYearLines(df) ==
    IF "Birth Year" \in df.cols
    THEN BirthYearOf(Numbers(Column(df, "birth")))
    ELSE <<Written("Birth Year data not available.", <<>>)>>

GenderOf(gender_fig) ==
    IF gender_fig # <<>>
    THEN <<Written("Gender Distribution", gender_fig[1])>>
    ELSE <<Written("Gender data not available.", <<>>)>>

GenderLines(df) == GenderOf(plot_gender_pie(df))

\* Every line of show_stats in the order the function writes them.
Lines(df) ==
    <<Written("Total Trips", Len(df.rows))>>
        \o TimeLines(df) \o StationLines(df) \o DurationLines(df)
        \o BirthYearLines(df)
        \o <<Written("User Type Distribution", plot_user_type_pie(df))>>
        \o GenderLines(df)

\* The number of lines before the first that raises.
Reached(lines) ==
    IF \A i \in DOMAIN lines : lines[i].ok THEN Len(lines)
    ELSE (CHOOSE i \in DOMAIN lines :
            ~lines[i].ok /\ \A j \in 1..(i - 1) : lines[j].ok) - 1

UpTo(df, lines, n) ==
    [arg |-> df, lines |-> SubSeq(lines, 1, n), raised |-> n < Len(lines)]

\* The lines written before the first exception, and whether one was raised.
Report(df, lines) == UpTo(df, lines, Reached(lines))

show_stats(df) == Report(df, Lines(df))

Has(rep, key) == \E i \in DOMAIN rep.lines : rep.lines[i].key = key

Line(rep, key) ==
    rep.lines[CHOOSE i \in DOMAIN rep.lines : rep.lines[i].key = key].val

(***************************************************************************)
(* The script: one run from top to bottom per user action                  *)
(***************************************************************************)
NoData == [kind |-> "warning", text |-> "No data available for the selected filters.",
           about |-> ""]

\* The default of the preview slider.
num_rows == 5

head(df, n) ==
    [cols |-> df.cols,
     rows |-> SubSeq(df.rows, 1, IF Len(df.rows) < n THEN Len(df.rows) ELSE n)]

Loaded(c, m, d, l) == [args |-> [city |-> c, month |-> m, day |-> d], df |-> l.df]

\* The button branch without the check of df.empty.
AfterLoadUnchecked(c, m, d, l) ==
    [loads |-> <<Loaded(c, m, d, l)>>,
     msgs |-> l.msgs,
     stats |-> <<show_stats(l.df)>>]

\* Lines 166-169, l being what load_data returned.
AfterLoad(c, m, d, l) ==
    [loads |-> <<Loaded(c, m, d, l)>>,
     msgs |-> l.msgs \o (IF Empty(l.df) THEN <<NoData>> ELSE <<>>),
     stats |-> IF Empty(l.df) THEN <<>> ELSE <<show_stats(l.df)>>]

\* Lines 164-169: what the pressed button does.
ButtonBranch(c, m, d) == AfterLoad(c, m, d, load_data(c, m, d))

Preview(c, m, d, l) ==
    [loads |-> <<Loaded(c, m, d, l)>>,
     msgs |-> l.msgs,
     preview |-> <<head(l.df, num_rows)>>]

\* Lines 171-174: what the ticked checkbox does.
PreviewBranch(c, m, d) == Preview(c, m, d, load_data(c, m, d))

Nothing == [loads |-> <<>>, msgs |-> <<>>, stats |-> <<>>, preview |-> <<>>]

Raised(first) == first.stats # <<>> /\ first.stats[1].raised

Output(button, ticked, first, second) ==
    [button |-> button,
     ticked |-> ticked,
     loads |-> first.loads \o second.loads,
     msgs |-> first.msgs \o second.msgs,
     stats |-> first.stats,
     raised |-> Raised(first),
     preview |-> second.preview]

\* The preview drawn from the DataFrame the button branch has loaded.
ThenPreviewReusing(c, m, d, button, ticked, first) ==
    IF button /\ ticked /\ ~Raised(first)
    THEN Output(button, ticked, first,
                [loads |-> <<>>, msgs |-> <<>>,
                 preview |-> <<head(first.loads[1].df, num_rows)>>])
    ELSE Output(button, ticked, first,
                IF ticked /\ ~Raised(first) THEN PreviewBranch(c, m, d) ELSE Nothing)

\* The rest of the run after line 169.  An exception in show_stats ends the
\* run where it is raised.
ThenPreview(c, m, d, button, ticked, first) ==
    Output(button, ticked, first,
           IF ticked /\ ~Raised(first) THEN PreviewBranch(c, m, d) ELSE Nothing)

\* One run of the script with the widgets at (c, m, d, ticked); button says
\* whether this run is the one the button press started.
RunScript(c, m, d, button, ticked) ==
    ThenPreview(c, m, d, button, ticked,
                IF button THEN ButtonBranch(c, m, d) ELSE Nothing)

\* A run that ends in an exception never reaches the checkbox; whether the
\* runtime then keeps the state of the widget it did not see depends on its
\* version, so either may happen.
CheckboxAfter(r, ticked) == IF r.raised THEN {ticked, FALSE} ELSE {ticked}

SelectCity(c) ==
    /\ c # city
    /\ city' = c
    /\ action' = "city"
    /\ run' = RunScript(c, month, day, FALSE, checkbox)
    /\ UNCHANGED <<files, month, day, checkbox, call, snap, view, report>>

SelectMonth(m) ==
    /\ m # month
    /\ month' = m
    /\ action' = "month"
    /\ run' = RunScript(city, m, day, FALSE, checkbox)
    /\ UNCHANGED <<files, city, day, checkbox, call, snap, view, report>>

SelectDay(d) ==
    /\ d # day
    /\ day' = d
    /\ action' = "day"
    /\ run' = RunScript(city, month, d, FALSE, checkbox)
    /\ UNCHANGED <<files, city, month, checkbox, call, snap, view, report>>

PressButton ==
    /\ action' = "button"
    /\ run' = RunScript(city, month, day, TRUE, checkbox)
    /\ checkbox' \in CheckboxAfter(run', checkbox)
    /\ UNCHANGED <<files, city, month, day, call, snap, view, report>>

ToggleCheckbox ==
    /\ checkbox' = ~checkbox
    /\ action' = "checkbox"
    /\ run' = RunScript(city, month, day, FALSE, ~checkbox)
    /\ UNCHANGED <<files, city, month, day, call, snap, view, report>>

(***************************************************************************)
(* The inputs: timestamps, rows and files                                  *)
(***************************************************************************)
MaxRows == 3

MaxDemoRows == 2

MaxTypeRows == 4

MaxTripRows == 4

Stamp(mon, dom, hour) == [mon |-> mon, dom |-> dom, hour |-> hour]

\* Sunday 1 January, Monday 2 January, Monday 6 February, Friday 30 June and
\* Saturday 1 July 2017.
TsSamples == {Stamp(1, 1, 0), Stamp(1, 2, 9), Stamp(2, 6, 9), Stamp(6, 30, 23),
              Stamp(7, 1, 9)}

Trip(ts, start, end, dur, utype, gender, birth) ==
    [ts |-> ts, start |-> start, end |-> end, dur |-> dur, utype |-> utype,
     gender |-> gender, birth |-> birth]

AllCols == RequiredCols \cup OptionalCols

File(cols, rows) == [exists |-> TRUE, cols |-> cols, rows |-> rows]

Missing == [exists |-> FALSE, cols |-> {}, rows |-> <<>>]

HeaderOnly == File(AllCols, <<>>)

\* A file in which show_stats finds all it needs.
FullFile ==
    File(AllCols,
         <<Trip(Stamp(1, 1, 0), <<"A">>, <<"C">>, <<60>>, "Subscriber", "Male", <<1985>>),
           Trip(Stamp(1, 2, 9), <<"A">>, <<"B">>, <<120>>, "Customer", NaN, <<>>),
           Trip(Stamp(6, 30, 23), <<"B">>, <<"C">>, <<90>>, "Subscriber", "Female", <<1990>>)>>)

\* A file of casual customers, who give neither gender nor birth year.
CustomerFile ==
    File(AllCols,
         <<Trip(Stamp(1, 2, 9), <<"A">>, <<"C">>, <<60>>, "Customer", NaN, <<>>),
           Trip(Stamp(2, 6, 9), <<"B">>, <<"C">>, <<30>>, "Customer", NaN, <<>>)>>)

\* A file without the optional columns.
PlainFile ==
    File(RequiredCols,
         <<Trip(Stamp(1, 1, 0), <<"A">>, <<"C">>, <<60>>, "Subscriber", NaN, <<>>),
           Trip(Stamp(7, 1, 9), <<"A">>, <<"C">>, <<45>>, "Customer", NaN, <<>>)>>)

ShellFiles == {Missing, HeaderOnly, FullFile, CustomerFile}

\* The files the direct calls start with.
LoadConfig ==
    (CITY_DATA["Chicago"] :> FullFile) @@ (CITY_DATA["New York City"] :> Missing)
        @@ (CITY_DATA["Washington"] :> PlainFile)

SeqsUpTo(S, n) == UNION {[1..k -> S] : k \in 1..n}

\* Files that differ in the start times alone.
TimeFiles ==
    {File(AllCols, [i \in DOMAIN tss |->
                      Trip(tss[i], <<"A">>, <<"C">>, <<60>>, "Subscriber", "Male", <<1985>>)]) :
        tss \in SeqsUpTo(TsSamples, MaxRows)}

\* Files that differ in the stations alone, some names holding " to ".
TripFiles ==
    {File(AllCols, [i \in DOMAIN ps |->
                      Trip(Stamp(1, 1, 0), ps[i][1], ps[i][2], <<60>>, "Subscriber", "Male", <<1985>>)]) :
        ps \in SeqsUpTo({<<"A">>, <<"A", " to ", "B">>} \X {<<"C">>, <<"B", " to ", "C">>},
                        MaxTripRows)}

\* Files with missing stations and durations, with the optional columns
\* (all cells filled) and without them.
GapRows == SeqsUpTo({<<>>, <<"A">>} \X {<<>>, <<"C">>} \X {<<>>, <<60>>}, MaxRows)

GapFiles ==
    {File(AllCols, [i \in DOMAIN ps |->
                      Trip(Stamp(1, 1, 0), ps[i][1], ps[i][2], ps[i][3], "Subscriber", "Male", <<1985>>)]) :
        ps \in GapRows}
    \cup
    {File(RequiredCols, [i \in DOMAIN ps |->
                           Trip(Stamp(1, 1, 0), ps[i][1], ps[i][2], ps[i][3], "Subscriber", NaN, <<>>)]) :
        ps \in GapRows}

\* Files that differ in the optional columns and the user type.
DemoFiles ==
    UNION {{File(RequiredCols \cup opt,
                 [i \in DOMAIN ps |->
                    Trip(Stamp(1, 1, 0), <<"A">>, <<"C">>, <<60>>, ps[i][1], ps[i][2], ps[i][3])]) :
              ps \in SeqsUpTo({"Subscriber", "Customer", NaN}
                                \X (IF "Gender" \in opt THEN {"Male", "Female", NaN} ELSE {NaN})
                                \X (IF "Birth Year" \in opt THEN {<<1985>>, <<1990>>, <<>>} ELSE {<<>>}),
                              MaxDemoRows)} :
           opt \in SUBSET OptionalCols}

\* Files that differ in the user type alone.
TypeFiles ==
    {File(AllCols, [i \in DOMAIN us |->
                      Trip(Stamp(1, 1, 0), <<"A">>, <<"C">>, <<60>>, us[i], "Male", <<1985>>)]) :
        us \in SeqsUpTo({"Subscriber", "Customer", NaN}, MaxTypeRows)}

StatsFiles == TimeFiles \cup TripFiles \cup GapFiles \cup DemoFiles \cup TypeFiles

(***************************************************************************)
(* Direct calls of load_data, to compare one call with a later one          *)
(***************************************************************************)
\* A call records the file as it was when the call read it.
Returned(c, m, d, l) ==
    [args |-> [city |-> c, month |-> m, day |-> d],
     file |-> files[CITY_DATA[c]],
     df |-> l.df,
     msgs |-> l.msgs]

CallOf(c, m, d) == Returned(c, m, d, load_data(c, m, d))

Load(c, m, d) ==
    /\ call' = <<CallOf(c, m, d)>>
    /\ UNCHANGED <<files, city, month, day, checkbox, action, run, snap, view, report>>

\* The file of a city is replaced on disk, once.
Rewrite(c) ==
    /\ files = LoadConfig
    /\ files' = [files EXCEPT ![CITY_DATA[c]] = CustomerFile]
    /\ UNCHANGED <<city, month, day, checkbox, action, run, call, snap, view, report>>

\* The calls that later calls are compared with: every city, and filters
\* that keep all, some and none of the rows.
ObservedMonths == {"All", "January", "June"}

ObservedDays == {"All", "Monday", "Friday"}

\* Set the last call aside to compare later calls with.
Observe ==
    /\ call # <<>>
    /\ call[1].args.month \in ObservedMonths
    /\ call[1].args.day \in ObservedDays
    /\ snap = <<>>
    /\ snap' = call
    /\ call' = <<>>
    /\ UNCHANGED <<files, city, month, day, checkbox, action, run, view, report>>

(***************************************************************************)
(* show_stats applied to a view                                            *)
(***************************************************************************)
ShowStats ==
    /\ report = <<>>
    /\ report' = <<show_stats(view)>>
    /\ UNCHANGED <<files, city, month, day, checkbox, action, run, call, snap, view>>

(***************************************************************************)
(* Specifications                                                          *)
(***************************************************************************)
\* The page as first drawn: the first option of every selectbox, nothing
\* pressed, nothing ticked.
Init ==
    /\ files \in [FileNames -> ShellFiles]
    /\ city = Cities[1]
    /\ month = MONTHS[1]
    /\ day = DAYS[1]
    /\ checkbox = FALSE
    /\ action = "open"
    /\ run = RunScript(Cities[1], MONTHS[1], DAYS[1], FALSE, FALSE)
    /\ call = <<>>
    /\ snap = <<>>
    /\ view = EmptyDataFrame
    /\ report = <<>>

Next ==
    \/ \E c \in Range(Cities) : SelectCity(c)
    \/ \E m \in Range(MONTHS) : SelectMonth(m)
    \/ \E d \in Range(DAYS) : SelectDay(d)
    \/ PressButton
    \/ ToggleCheckbox

Spec == Init /\ [][Next]_vars

InitLoad ==
    /\ files = LoadConfig
    /\ city = Cities[1]
    /\ month = MONTHS[1]
    /\ day = DAYS[1]
    /\ checkbox = FALSE
    /\ action = "open"
    /\ run = RunScript(Cities[1], MONTHS[1], DAYS[1], FALSE, FALSE)
    /\ call = <<>>
    /\ snap = <<>>
    /\ view = EmptyDataFrame
    /\ report = <<>>

NextLoad ==
    \/ \E c \in Range(Cities), m \in Range(MONTHS), d \in Range(DAYS) : Load(c, m, d)
    \/ Rewrite("Chicago")
    \/ Observe

SpecLoad == InitLoad /\ [][NextLoad]_vars

\* A non-empty view is what load_data returns for some file with rows.
InitStats ==
    /\ files = [f \in FileNames |-> Missing]
    /\ city = Cities[1]
    /\ month = MONTHS[1]
    /\ day = DAYS[1]
    /\ checkbox = FALSE
    /\ action = "open"
    /\ run = RunScript(Cities[1], MONTHS[1], DAYS[1], FALSE, FALSE)
    /\ call = <<>>
    /\ snap = <<>>
    /\ view \in {Derive(f) : f \in StatsFiles}
    /\ report = <<>>

NextStats == ShowStats

SpecStats == InitStats /\ [][NextStats]_vars

(***************************************************************************)
(* Claims about load_data, checked under SpecLoad                          *)
(***************************************************************************)
\* Row i of file f is one the filters (m, d) ask for.
Matches(f, i, m, d) ==
    /\ m = "All" \/ month_name(f.rows[i].ts) = m
    /\ d = "All" \/ day_name(f.rows[i].ts) = d

Labels0(df) == {df.rows[k].idx : k \in DOMAIN df.rows}

\* C1: the DataFrame load_data returns for an existing file holds exactly
\* the rows of the file whose derived month and weekday are the requested
\* ones: every returned row is such a row of the file, each such row is
\* returned once, and with All and All there are as many rows as in the file.
C1_ExactlyMatchingRows ==
    call # <<>> /\ call[1].file.exists =>
        LET f == call[1].file
            df == call[1].df
            a == call[1].args
        IN  /\ \A k \in DOMAIN df.rows :
                 /\ df.rows[k].idx + 1 \in DOMAIN f.rows
                 /\ df.rows[k].ts = f.rows[df.rows[k].idx + 1].ts
                 /\ Matches(f, df.rows[k].idx + 1, a.month, a.day)
            /\ \A i \in DOMAIN f.rows :
                 Matches(f, i, a.month, a.day) => (i - 1) \in Labels0(df)
            /\ Cardinality(Labels0(df)) = Len(df.rows)
            /\ a.month = "All" /\ a.day = "All" => Len(df.rows) = Len(f.rows)

\* A call with both filters set that keeps one row of a file and drops others.
C1_Witness ==
    /\ call # <<>>
    /\ call[1].args.month = "January"
    /\ call[1].args.day = "Monday"
    /\ Len(call[1].df.rows) = 1
    /\ Len(call[1].file.rows) = 3

FileOf(l) == files[CITY_DATA[l.args.city]]

\* C2: when the file of the selected city is missing, load_data returns the
\* empty DataFrame, the run shows the message that the file was not found
\* and does not raise, show_stats is not called, and the button branch adds
\* its warning.
C2_MissingFileIsNotFatal ==
    \A k \in DOMAIN run.loads :
        ~FileOf(run.loads[k]).exists =>
            /\ run.loads[k].df = EmptyDataFrame
            /\ NotFound(run.loads[k].args.city) \in Range(run.msgs)
            /\ run.stats = <<>>
            /\ ~run.raised
            /\ run.button => NoData \in Range(run.msgs)

\* The button pressed for a city whose file is missing.
C2_Witness ==
    /\ run.button
    /\ run.loads # <<>>
    /\ ~FileOf(run.loads[1]).exists
    /\ run.stats = <<>>

\* The filters have eliminated every row of a file that has rows.
Eliminated(l) == FileOf(l).exists /\ FileOf(l).rows # <<>> /\ l.df.rows = <<>>

\* C3 as claimed: whenever the filters eliminate all rows the run shows the
\* warning and does not call show_stats.
C3_WarningWheneverEliminated ==
    \A k \in DOMAIN run.loads :
        Eliminated(run.loads[k]) => NoData \in Range(run.msgs) /\ run.stats = <<>>

\* C3 amended: when the button is pressed and the DataFrame loaded is empty
\* the run shows the warning and does not call show_stats, and show_stats is
\* only ever called by a button press with the non-empty DataFrame it loaded.
C3_ButtonSkipsEmptyView ==
    /\ run.button /\ Empty(run.loads[1].df) =>
           NoData \in Range(run.msgs) /\ run.stats = <<>>
    /\ \A k \in DOMAIN run.stats :
           /\ run.button
           /\ run.stats[k].arg = run.loads[1].df
           /\ run.stats[k].arg.rows # <<>>
           /\ ~Empty(run.stats[k].arg)

\* The button pressed with filters that eliminate every row of the file.
C3_Witness ==
    /\ run.button
    /\ Eliminated(run.loads[1])
    /\ NoData \in Range(run.msgs)

\* C8 as claimed: a button press or a checkbox toggle causes exactly one
\* call of load_data.
C8_OneLoadPerAction ==
    action \in {"button", "checkbox"} => Len(run.loads) = 1

\* C8 amended: the run a user action starts calls load_data once if the
\* action was the button press and once more if the checkbox is ticked and
\* show_stats has not raised, each time with the values of the widgets.
C8_LoadsPerRun ==
    /\ run.button <=> action = "button"
    /\ Len(run.loads) = (IF run.button THEN 1 ELSE 0)
                          + (IF run.ticked /\ ~run.raised THEN 1 ELSE 0)
    /\ \A k \in DOMAIN run.loads :
           run.loads[k].args = [city |-> city, month |-> month, day |-> day]
    /\ ~run.raised => run.ticked = checkbox

\* The button pressed while the checkbox is ticked: two calls in one run.
C8_Witness ==
    /\ action = "button"
    /\ run.ticked
    /\ Len(run.loads) = 2
    /\ run.stats # <<>>

(***************************************************************************)
(* Claims about show_stats and the charts, checked under SpecStats         *)
(***************************************************************************)
Rows == view.rows

\* The rows of the view with the given value in the given column.
With(field, v) == {i \in DOMAIN Rows : Rows[i][field] = v}

Present(field) == {i \in DOMAIN Rows : Rows[i][field] # NaN}

\* The slices of the chart add up to total, and every label gives the count
\* of its category in the view and that count as a share of total.
SlicesOver(pie, field, total) ==
    /\ SumSeq(pie.sizes) = total
    /\ \A k \in DOMAIN pie.labels :
         /\ pie.sizes[k] = pie.labels[k].count
         /\ pie.labels[k].count = Cardinality(With(field, pie.labels[k].name))
         /\ pie.labels[k].pct = RoundDiv(10000 * pie.labels[k].count, total)

\* C4 as claimed: the slices of each chart sum to the row count of the view
\* and each percentage is the count over the row count.
C4_SlicesSumToRowCount ==
    report # <<>> =>
        /\ Has(report[1], "User Type Distribution") =>
               SlicesOver(Line(report[1], "User Type Distribution"), "utype", Len(Rows))
        /\ Has(report[1], "Gender Distribution") =>
               SlicesOver(Line(report[1], "Gender Distribution"), "gender", Len(Rows))

\* Every value present in the column has its slice and NaN has none.
SlicesOfPresent(pie, field) ==
    /\ SlicesOver(pie, field, Cardinality(Present(field)))
    /\ \A k \in DOMAIN pie.labels : pie.labels[k].name # NaN
    /\ \A i \in Present(field) :
         \E k \in DOMAIN pie.labels : pie.labels[k].name = Rows[i][field]
    /\ \A k, j \in DOMAIN pie.labels :
         pie.labels[k].name = pie.labels[j].name => k = j

\* C4 amended: the slices of each chart sum to the number of rows whose
\* value in the charted column is not missing, each percentage is the count
\* over that number rounded to two decimals, and the missing values get no
\* slice.
C4_SlicesSumToPresentCount ==
    report # <<>> =>
        /\ Has(report[1], "User Type Distribution") =>
               SlicesOfPresent(Line(report[1], "User Type Distribution"), "utype")
        /\ Has(report[1], "Gender Distribution") =>
               SlicesOfPresent(Line(report[1], "Gender Distribution"), "gender")

\* A chart of two categories over a view in which a user type is missing.
C4_Witness ==
    /\ report # <<>>
    /\ Has(report[1], "User Type Distribution")
    /\ Len(Line(report[1], "User Type Distribution").sizes) = 2
    /\ Cardinality(Present("utype")) < Len(Rows)

OtherLines == {"Total Trips", "Most Common Month", "Most Common Day",
               "Most Common Start Hour", "Most Common Start Station",
               "Most Common End Station", "Most Frequent Trip",
               "Total Travel Time", "Average Travel Time",
               "User Type Distribution"}

\* C5: for a view without the Gender column plot_gender_pie returns None and
\* the report shows the message in place of the chart; for a view without
\* the Birth Year column the report shows the message in place of the three
\* birth year lines; in both cases every other section is written.
C5_AbsentColumnIsUnavailable ==
    report # <<>> =>
        /\ "Gender" \notin view.cols =>
               /\ plot_gender_pie(view) = <<>>
               /\ Has(report[1], "Gender data not available.")
               /\ ~Has(report[1], "Gender Distribution")
               /\ \A key \in OtherLines : Has(report[1], key)
               /\ \/ Has(report[1], "Birth Year data not available.")
                  \/ Has(report[1], "Most Common")
        /\ "Birth Year" \notin view.cols =>
               /\ Has(report[1], "Birth Year data not available.")
               /\ ~Has(report[1], "Earliest")
               /\ \A key \in OtherLines : Has(report[1], key)
               /\ \/ Has(report[1], "Gender data not available.")
                  \/ Has(report[1], "Gender Distribution")

\* The reported value v of a derived field is one of greatest count, and
\* of the values of that count the least in the order of the field.
LeastOfMostFrequent(field, kind, v) ==
    /\ With(field, v) # {}
    /\ \A i \in DOMAIN Rows :
         /\ Cardinality(With(field, Rows[i][field])) <= Cardinality(With(field, v))
         /\ Cardinality(With(field, Rows[i][field])) = Cardinality(With(field, v))
              /\ Rows[i][field] # v
            => Less(kind, v, Rows[i][field])

\* C6: for every non-empty view the most common month, weekday and start
\* hour are reported, each is a value of greatest count in its derived
\* field, and among the values of greatest count it is the least.
C6_ModeIsLeastOfMostFrequent ==
    report # <<>> /\ Rows # <<>> =>
        /\ Has(report[1], "Most Common Month")
        /\ Has(report[1], "Most Common Day")
        /\ Has(report[1], "Most Common Start Hour")
        /\ LeastOfMostFrequent("month", "name", Line(report[1], "Most Common Month"))
        /\ LeastOfMostFrequent("day_of_week", "name", Line(report[1], "Most Common Day"))
        /\ LeastOfMostFrequent("hour", "number", Line(report[1], "Most Common Start Hour"))

\* Two months tie and the one reported is not the one of the first row.
C6_Witness ==
    /\ report # <<>>
    /\ Len(Rows) = 2
    /\ Rows[1].month = "January"
    /\ Rows[2].month = "February"
    /\ Line(report[1], "Most Common Month") = "February"
    /\ Line(report[1], "Most Common Start Hour") = 0

\* The rows that hold the same (start, end) pair as row i.
SamePair(i) ==
    {k \in DOMAIN Rows : Rows[k].start = Rows[i].start /\ Rows[k].end = Rows[i].end}

\* C9: the most frequent trip reported is the key of a (start, end) pair
\* that no other pair of the view exceeds in its number of rows.
C9_TripIsMostFrequentPair ==
    report # <<>> /\ Has(report[1], "Most Frequent Trip") =>
        \E i \in DOMAIN Rows :
            /\ Rows[i].start # <<>> /\ Rows[i].end # <<>>
            /\ TripKey(Rows[i]) = Line(report[1], "Most Frequent Trip")
            /\ \A j \in DOMAIN Rows :
                 Rows[j].start # <<>> /\ Rows[j].end # <<>> =>
                     Cardinality(SamePair(j)) <= Cardinality(SamePair(i))

\* C10: show_stats runs to its end without raising for every non-empty view.
C10_ShowStatsNeverRaises ==
    report # <<>> /\ Rows # <<>> => ~report[1].raised

====
